---- MODULE Spec2Model ----
(***************************************************************************)
(* Startup and lifecycle coordination of the cspc-operator:                 *)
(* cmd/cspc-operator/app/start.go (Start, getClusterConfig,                 *)
(* getSyncInterval) together with the collaborators Start drives: the      *)
(* signal handler, the controller builder and the controller's Run.        *)
(***************************************************************************)
EXTENDS Integers, Sequences, FiniteSets, TLC

\* ------------------------------------------------------------------------
\* Bounds of the model
\* ------------------------------------------------------------------------

\* RESYNC_INTERVAL ranges over every string over EnvAlphabet of at most this
\* length, and over the long strings of EdgeEnv.
MaxEnvLen == 2

\* The number of limbs of an exact (Wide) number: enough for the product of
\* the longest RESYNC_INTERVAL of the model with 10^9.
WideLimbs == 7

\* ------------------------------------------------------------------------
\* 64-bit integer arithmetic.  A number is a little-endian sequence of
\* limbs in base 2^15; Wide numbers (7 limbs, 105 bits) are exact, an int64
\* is the 64 low bits of its two's complement pattern.
\* ------------------------------------------------------------------------

LimbBase == 2^15
TopLimbBits == 2^4

WideOfSmall(n) == [i \in 1..WideLimbs |-> IF i = 1 THEN n ELSE 0]

RECURSIVE MulAddFrom(_, _, _, _)
\* x * m + carry on the limbs i.., the limbs below i already done.  (The
\* test of v makes TLC compute each limb before the next.)
MulAddFrom(x, m, carry, i) ==
  IF i > WideLimbs THEN x
  ELSE LET v == x[i] * m + carry
       IN IF v < LimbBase
          THEN MulAddFrom([x EXCEPT ![i] = v], m, 0, i + 1)
          ELSE MulAddFrom([x EXCEPT ![i] = v % LimbBase], m, v \div LimbBase, i + 1)

MulAdd(x, m, carry) == MulAddFrom(x, m, carry, 1)

RECURSIVE WideLessFrom(_, _, _)
WideLessFrom(x, y, i) ==
  IF i = 0 THEN FALSE
  ELSE IF x[i] # y[i] THEN x[i] < y[i]
  ELSE WideLessFrom(x, y, i - 1)

WideLess(x, y) == WideLessFrom(x, y, WideLimbs)

\* 2^63 = 8 * (2^15)^4
TwoTo63 == [i \in 1..WideLimbs |-> IF i = 5 THEN 8 ELSE 0]

\* The 64 low bits of x.
Wrap64(x) ==
  [i \in 1..WideLimbs |->
     IF i <= 4 THEN x[i] ELSE IF i = 5 THEN x[i] % TopLimbBits ELSE 0]

\* 2^64 - x modulo 2^64: complement the 64 bits and add one.
Negate64(x) ==
  Wrap64(MulAdd([i \in 1..WideLimbs |->
                   IF i <= 4 THEN LimbBase - 1 - x[i]
                   ELSE IF i = 5 THEN TopLimbBits - 1 - x[i] ELSE 0], 1, 1))

\* The int64 pattern of the integer (-1)^neg * mag, wrapped.
Int64Of(neg, mag) == IF neg THEN Negate64(Wrap64(mag)) ELSE Wrap64(mag)

\* int64 multiplication by 10^9 (time.Second), wrapping as Go's does.
MulSecond64(p) == Wrap64(MulAdd(MulAdd(MulAdd(p, 1000, 0), 1000, 0), 1000, 0))

\* The exact product mag * 10^9.
MulSecondWide(mag) == MulAdd(MulAdd(MulAdd(mag, 1000, 0), 1000, 0), 1000, 0)

\* Whether the integer (-1)^neg * mag is an int64.
FitsInt64(neg, mag) ==
  IF neg THEN ~WideLess(TwoTo63, mag) ELSE WideLess(mag, TwoTo63)

\* ------------------------------------------------------------------------
\* strconv.Atoi
\* ------------------------------------------------------------------------

Digits == <<"0", "1", "2", "3", "4", "5", "6", "7", "8", "9">>

IsDigit(c) == \E d \in 1..10 : Digits[d] = c

DigitVal(c) == (CHOOSE d \in 1..10 : Digits[d] = c) - 1

HasSign(s) == Len(s) > 0 /\ s[1] \in {"+", "-"}

Unsigned(s) == IF HasSign(s) THEN Tail(s) ELSE s

\* An optional sign followed by at least one decimal digit.
IsIntSyntax(s) ==
  /\ Len(Unsigned(s)) > 0
  /\ \A i \in 1..Len(Unsigned(s)) : IsDigit(Unsigned(s)[i])

RECURSIVE ParseDigits(_, _)
\* The number the digits of s denote, after the number acc.
ParseDigits(s, acc) ==
  IF s = <<>> THEN acc
  ELSE ParseDigits(Tail(s), MulAdd(acc, 10, DigitVal(Head(s))))

\* 2^63 - 1
MaxInt64 ==
  [i \in 1..WideLimbs |->
     IF i <= 4 THEN LimbBase - 1 ELSE IF i = 5 THEN 7 ELSE 0]

\* strconv.Atoi(s): [err, val], val an int64 pattern: 0 on a syntax error,
\* the nearest int64 on a range error.
Atoi(s) ==
  IF ~IsIntSyntax(s) THEN [err |-> "syntax", val |-> WideOfSmall(0)]
  ELSE LET neg == s[1] = "-"
           mag == ParseDigits(Unsigned(s), WideOfSmall(0))
       IN IF FitsInt64(neg, mag)
          THEN [err |-> "nil", val |-> Int64Of(neg, mag)]
          ELSE [err |-> "range",
                val |-> IF neg THEN Int64Of(TRUE, TwoTo63) ELSE MaxInt64]

\* ------------------------------------------------------------------------
\* getSyncInterval
\* ------------------------------------------------------------------------

\* const ResyncInterval = 30 * time.Second
ResyncIntervalSeconds == 30

ResyncInterval == MulSecond64(WideOfSmall(ResyncIntervalSeconds))

\* Faulty variant: only a parse error falls back to the default, a zero does not.
getSyncInterval_ZeroPassed(envValue) ==
  LET r == Atoi(envValue)
  IN IF r.err # "nil"
     THEN [interval |-> ResyncInterval, warned |-> TRUE]
     ELSE [interval |-> MulSecond64(r.val), warned |-> FALSE]

\* getSyncInterval() under RESYNC_INTERVAL = envValue: the duration returned and
\* whether klog.Warningf was called.
getSyncInterval(envValue) ==
  LET r == Atoi(envValue)
  IN IF r.err # "nil" \/ r.val = WideOfSmall(0)
     THEN [interval |-> ResyncInterval, warned |-> TRUE]
     ELSE [interval |-> MulSecond64(r.val), warned |-> FALSE]


\* ------------------------------------------------------------------------
\* The process environment: the -kubeconfig flag, the files that hold a
\* loadable kubeconfig, whether the process runs inside a cluster, and the
\* environment variable RESYNC_INTERVAL.
\* ------------------------------------------------------------------------

KubeconfigPaths == {"", "/etc/kubeconfig", "/no/such/file"}

LoadableFiles == {"/etc/kubeconfig"}

EnvAlphabet == {"0", "1", "7", "-", "+", "x"}

RECURSIVE StringsUpTo(_)
StringsUpTo(n) ==
  IF n = 0 THEN {<<>>}
  ELSE LET shorter == StringsUpTo(n - 1)
       IN shorter \cup {Append(s, c) : s \in shorter, c \in EnvAlphabet}

\* Long values around the limits of int64 and of int64 nanoseconds.
EdgeEnv ==
  { <<"9","2","2","3","3","7","2","0","3","6">>,
    <<"9","2","2","3","3","7","2","0","3","7">>,
    <<"-","9","2","2","3","3","7","2","0","3","6">>,
    <<"-","9","2","2","3","3","7","2","0","3","7">>,
    <<"1","8","4","4","6","7","4","4","0","7","4">>,
    <<"9","2","2","3","3","7","2","0","3","6","8","5","4","7","7","5","8","0","7">>,
    <<"9","2","2","3","3","7","2","0","3","6","8","5","4","7","7","5","8","0","8">>,
    <<"-","9","2","2","3","3","7","2","0","3","6","8","5","4","7","7","5","8","0","8">>,
    <<"-","9","2","2","3","3","7","2","0","3","6","8","5","4","7","7","5","8","0","9">>,
    <<"9","9","9","9","9","9","9","9","9","9","9","9","9","9","9","9","9","9","9","9">>,
    <<"3","0","s">>, <<"1","_","0","0","0">>, <<" ","5">> }

\* A variable of the environment: unset, or set to a string.
UnsetVar == [set |-> FALSE, val |-> <<>>]

SetVar(s) == [set |-> TRUE, val |-> s]

\* os.Getenv: the value, and the empty string for a variable that is unset.
Getenv(v) == IF v.set THEN v.val ELSE <<>>

WideEnv == {UnsetVar} \cup {SetVar(s) : s \in StringsUpTo(MaxEnvLen) \cup EdgeEnv}

\* The values of RESYNC_INTERVAL the whole startup is explored under.
StartEnv ==
  {UnsetVar, SetVar(<<"0">>), SetVar(<<"7">>), SetVar(<<"-","7">>), SetVar(<<"x">>)}

\* ------------------------------------------------------------------------
\* State
\* ------------------------------------------------------------------------

VARIABLES
  kubeconfig,   \* the value of the -kubeconfig flag
  inCluster,    \* whether in-cluster credentials are present
  resyncEnv,    \* the environment variable RESYNC_INTERVAL
  pc,           \* the statement of Start the initiating goroutine is at
  steps,        \* the statements of Start executed so far, in order
  ret,          \* what Start returned
  stopCh,       \* the channel SetupSignalHandler returned: "none", "open", "closed"
  handlers,     \* the number of SetupSignalHandler calls
  cfg,          \* the *rest.Config of getClusterConfig
  consulted,    \* the credential sources getClusterConfig has consulted
  clients,      \* the client sets constructed
  factory,      \* the two shared informer factories
  warnings,     \* the number of klog.Warningf calls
  builder,      \* the dependencies the controller builder holds
  controller,   \* the controller Build returned: "nil" or "built"
  run,          \* the call of controller.Run
  workers,      \* the worker goroutines Run launched
  failed,       \* the collaborators that returned an error
  descriptors   \* what each call of getClusterConfig was given and returned

vars ==
  <<kubeconfig, inCluster, resyncEnv, pc, steps, ret, stopCh, handlers, cfg,
    consulted, clients, factory, warnings, builder, controller, run, workers,
    failed, descriptors>>

env == <<kubeconfig, inCluster, resyncEnv>>

Factories == {"kube", "spc"}

NoFactory ==
  [created |-> FALSE, client |-> "", interval |-> WideOfSmall(0),
   registered |-> {}, launched |-> 0, started |-> 0, late |-> 0,
   stop |-> "none", task |-> "none", synced |-> FALSE]

NoReturn == [returned |-> FALSE, wrap |-> "", cause |-> ""]

\* A returned error: errors.Wrap(cause, wrap), or the bare cause when wrap is "".
Err(wrap, cause) == [returned |-> TRUE, wrap |-> wrap, cause |-> cause]

\* A returned nil.
Nil == [returned |-> TRUE, wrap |-> "", cause |-> ""]

NoRun ==
  [state |-> "idle", threadiness |-> 0, stop |-> "none", triggered |-> FALSE,
   dispatchedUnsynced |-> FALSE]

\* Whether the stop channel ch, one a goroutine was handed, is closed:
\* "stopCh" is the channel of SetupSignalHandler.
Closed(ch) == ch = "stopCh" /\ stopCh = "closed"

InitWith(envs) ==
  /\ kubeconfig \in KubeconfigPaths
  /\ inCluster \in BOOLEAN
  /\ resyncEnv \in envs
  /\ pc = "SetupSignalHandler"
  /\ steps = <<>>
  /\ ret = NoReturn
  /\ stopCh = "none"
  /\ handlers = 0
  /\ cfg = [source |-> "nil", path |-> ""]
  /\ consulted = {}
  /\ clients = {}
  /\ factory = [f \in Factories |-> NoFactory]
  /\ warnings = 0
  /\ builder = {}
  /\ controller = "nil"
  /\ run = NoRun
  /\ workers = <<>>
  /\ failed = {}
  /\ descriptors = <<>>

Init == InitWith(StartEnv)

\* ------------------------------------------------------------------------
\* getClusterConfig
\* ------------------------------------------------------------------------

\* clientcmd.BuildConfigFromFlags("", path) for a non-empty path: the
\* credentials of the file, or the error of loading it.
BuildConfigFromFlags(path) ==
  IF path \in LoadableFiles
  THEN [cfg |-> [source |-> "kubeconfig", path |-> path], err |-> "nil"]
  ELSE [cfg |-> [source |-> "nil", path |-> ""], err |-> "cannot load kubeconfig"]

\* rest.InClusterConfig(): the ambient credentials, or ErrNotInCluster.
InClusterConfig(inC) ==
  IF inC
  THEN [cfg |-> [source |-> "incluster", path |-> ""], err |-> "nil"]
  ELSE [cfg |-> [source |-> "nil", path |-> ""], err |-> "not in cluster"]

\* Faulty variant: the in-cluster credentials are preferred whenever they are
\* present, the kubeconfig file being read only without them.
getClusterConfig_AmbientFirst(path, inC) ==
  IF path # "" /\ ~inC
  THEN [res |-> BuildConfigFromFlags(path), consulted |-> {"kubeconfig"}]
  ELSE [res |-> InClusterConfig(inC), consulted |-> {"incluster"}]

\* Faulty variant: a kubeconfig that cannot be loaded falls back to the in-cluster
\* credentials.
getClusterConfig_FallsBack(path, inC) ==
  IF path # "" /\ BuildConfigFromFlags(path).err = "nil"
  THEN [res |-> BuildConfigFromFlags(path), consulted |-> {"kubeconfig"}]
  ELSE [res |-> InClusterConfig(inC),
        consulted |-> IF path # "" THEN {"kubeconfig", "incluster"} ELSE {"incluster"}]

\* getClusterConfig(path): the config, the error, and the sources consulted.
getClusterConfig(path, inC) ==
  IF path # ""
  THEN [res |-> BuildConfigFromFlags(path), consulted |-> {"kubeconfig"}]
  ELSE [res |-> InClusterConfig(inC), consulted |-> {"incluster"}]

\* The record of one call getClusterConfig(path) that returned res.
Called(path, res) == [path |-> path, cfg |-> res.cfg, err |-> res.err]

\* ------------------------------------------------------------------------
\* Start: one action per statement
\* ------------------------------------------------------------------------

Goto(from, to) ==
  /\ pc = from
  /\ pc' = to
  /\ steps' = Append(steps, from)

\* return r, at statement from
Return(from, r) ==
  /\ pc = from
  /\ pc' = "Done"
  /\ steps' = Append(steps, from)
  /\ ret' = r

\* The statements of the builder chain, in the order of Start.
ChainSteps ==
  <<"NewControllerBuilder", "withKubeClient", "withOpenEBSClient",
    "withNDMClient", "withCSPCSynced", "withCSPCLister", "withRecorder",
    "withEventHandler", "withWorkqueueRateLimiting", "Build">>

\* Whether statement s of Start has been executed.
Executed(s) == \E i \in 1..Len(steps) : steps[i] = s

\* stopCh := signals.SetupSignalHandler()
SetupSignalHandler ==
  /\ Goto("SetupSignalHandler", "SetLogFlag")
  /\ stopCh' = "open"
  /\ handlers' = handlers + 1
  /\ UNCHANGED <<env, descriptors,
                 ret, cfg, consulted, clients, factory, warnings, builder,
                 controller, run, workers, failed>>

\* klog.InitFlags(nil); err := flag.Set("logtostderr", "true"); flag.Parse()
SetLogFlag(ok) ==
  /\ IF ok
     THEN Goto("SetLogFlag", "getClusterConfig") /\ UNCHANGED <<ret, failed>>
     ELSE /\ Return("SetLogFlag", Err("failed to set logtostderr flag", "no such flag"))
          /\ failed' = failed \cup {"flag.Set"}
  /\ UNCHANGED <<env, descriptors,
                 stopCh, handlers, cfg, consulted, clients, factory,
                 warnings, builder, controller, run, workers>>

\* Faulty variant: the error of getClusterConfig is dropped and the nil config used.
GetClusterConfig_ErrorDropped ==
  LET r == getClusterConfig(kubeconfig, inCluster)
  IN /\ consulted' = consulted \cup r.consulted
     /\ descriptors' = Append(descriptors, Called(kubeconfig, r.res))
     /\ Goto("getClusterConfig", "NewKubeClient")
     /\ cfg' = r.res.cfg
     /\ failed' = IF r.res.err = "nil" THEN failed ELSE failed \cup {"getClusterConfig"}
     /\ UNCHANGED <<env, ret, stopCh, handlers, clients, factory, warnings,
                    builder, controller, run, workers>>

\* cfg, err := getClusterConfig(*kubeconfig)
GetClusterConfig ==
  LET r == getClusterConfig(kubeconfig, inCluster)
  IN /\ consulted' = consulted \cup r.consulted
     /\ IF r.res.err = "nil"
        THEN /\ Goto("getClusterConfig", "NewKubeClient")
             /\ cfg' = r.res.cfg
             /\ UNCHANGED <<ret, failed>>
        ELSE /\ Return("getClusterConfig", Err("error building kubeconfig", r.res.err))
             /\ failed' = failed \cup {"getClusterConfig"}
             /\ UNCHANGED cfg
     /\ descriptors' = Append(descriptors, Called(kubeconfig, r.res))
     /\ UNCHANGED <<env, stopCh, handlers, clients, factory, warnings, builder,
                    controller, run, workers>>

\* Faulty variant: the constructor's error is logged and startup goes on.
NewClient_GoesOn(step, next, family, ok) ==
  /\ Goto(step, next)
  /\ clients' = IF ok THEN clients \cup {family} ELSE clients
  /\ failed' = IF ok THEN failed ELSE failed \cup {step}
  /\ UNCHANGED <<env, descriptors,
                 ret, stopCh, handlers, cfg, consulted, factory, warnings,
                 builder, controller, run, workers>>

\* A client constructor: client, err := NewForConfig(cfg), and the return
\* on its error.
NewClient(step, next, family, ok) ==
  /\ IF ok
     THEN /\ Goto(step, next)
          /\ clients' = clients \cup {family}
          /\ UNCHANGED <<ret, failed>>
     ELSE /\ Return(step, Err("error building " \o family \o " clientset",
                              "NewForConfig failed"))
          /\ failed' = failed \cup {step}
          /\ UNCHANGED clients
  /\ UNCHANGED <<env, descriptors,
                 stopCh, handlers, cfg, consulted, factory, warnings,
                 builder, controller, run, workers>>

\* Faulty variant: the kube informer factory is created right after the kube client.
NewKubeClient_ThenFactory(ok) ==
  NewClient("NewKubeClient", "NewKubeInformerFactory", "kubernetes", ok)

\* kubeClient, err := kubernetes.NewForConfig(cfg)
NewKubeClient(ok) ==
  NewClient("NewKubeClient", "NewOpenEBSClient", "kubernetes", ok)

\* openebsClient, err := clientset.NewForConfig(cfg)
NewOpenEBSClient(ok) ==
  NewClient("NewOpenEBSClient", "NewNDMClient", "openebs", ok)

\* ndmClient, err := ndmclientset.NewForConfig(cfg)
NewNDMClient(ok) ==
  NewClient("NewNDMClient", "NewKubeInformerFactory", "ndm", ok)

\* getSyncInterval() in each environment of the model, computed once.
getSyncIntervalIn == [v \in WideEnv |-> getSyncInterval(Getenv(v))]

\* f := NewSharedInformerFactory(client, getSyncInterval())
NewInformerFactory(step, next, f, client) ==
  LET r == getSyncIntervalIn[resyncEnv]
  IN /\ Goto(step, next)
     /\ warnings' = warnings + (IF r.warned THEN 1 ELSE 0)
     /\ factory' = [factory EXCEPT ![f] =
                      [NoFactory EXCEPT !.created = TRUE, !.client = client,
                                        !.interval = r.interval]]
     /\ UNCHANGED <<env, descriptors,
                    ret, stopCh, handlers, cfg, consulted, clients,
                    builder, controller, run, workers, failed>>

\* kubeInformerFactory := kubeinformers.NewSharedInformerFactory(kubeClient, getSyncInterval())
NewKubeInformerFactory ==
  NewInformerFactory("NewKubeInformerFactory", "NewSpcInformerFactory",
                     "kube", "kubernetes")

\* Faulty variant: the custom-resource factory is started as soon as it is created.
NewSpcInformerFactory_StartedAtOnce ==
  LET r == getSyncIntervalIn[resyncEnv]
  IN /\ Goto("NewSpcInformerFactory", "NewControllerBuilder")
     /\ warnings' = warnings + (IF r.warned THEN 1 ELSE 0)
     /\ factory' = [factory EXCEPT !["spc"] =
                      [NoFactory EXCEPT !.created = TRUE, !.client = "openebs",
                                        !.interval = r.interval,
                                        !.launched = 1, !.stop = "stopCh"]]
     /\ UNCHANGED <<env, descriptors,
                    ret, stopCh, handlers, cfg, consulted, clients,
                    builder, controller, run, workers, failed>>

\* Faulty variant: getSyncInterval is called once, and the custom-resource
\* factory is given the interval of the kube factory.
NewSpcInformerFactory_IntervalReused ==
  /\ Goto("NewSpcInformerFactory", "NewControllerBuilder")
  /\ factory' = [factory EXCEPT !["spc"] =
                   [NoFactory EXCEPT !.created = TRUE, !.client = "openebs",
                                     !.interval = factory["kube"].interval]]
  /\ UNCHANGED <<env, descriptors, ret, stopCh, handlers, cfg, consulted,
                 clients, warnings, builder, controller, run, workers, failed>>

\* spcInformerFactory := informers.NewSharedInformerFactory(openebsClient, getSyncInterval())
NewSpcInformerFactory ==
  NewInformerFactory("NewSpcInformerFactory", "NewControllerBuilder",
                     "spc", "openebs")

\* ------------------------------------------------------------------------
\* The controller builder
\* ------------------------------------------------------------------------

\* What each step of the builder chain supplies.
BuilderSteps ==
  {"withKubeClient", "withOpenEBSClient", "withNDMClient", "withCSPCSynced",
   "withCSPCLister", "withRecorder", "withEventHandler",
   "withWorkqueueRateLimiting"}

\* The seven required dependencies and the steps that supply each.
Required ==
  [coreClient |-> {"withKubeClient"},
   customResourceClients |-> {"withOpenEBSClient", "withNDMClient"},
   cacheSynced |-> {"withCSPCSynced"},
   lister |-> {"withCSPCLister"},
   recorder |-> {"withRecorder"},
   eventHandler |-> {"withEventHandler"},
   workqueue |-> {"withWorkqueueRateLimiting"}]

\* The required dependencies the builder b was never given.
Missing(b) == {d \in DOMAIN Required : ~(Required[d] \subseteq b)}

\* What a step registers with the informer factory it is given.
Registers ==
  [s \in BuilderSteps |->
     CASE s = "withCSPCSynced" -> {"synced"}
       [] s = "withCSPCLister" -> {"lister"}
       [] s = "withEventHandler" -> {"eventHandler"}
       [] OTHER -> {}]

\* The informer factory after the step has registered with it.
Register(fac, step) ==
  [fac EXCEPT !.registered = @ \cup Registers[step],
              !.late = @ + (IF Registers[step] # {} /\ (fac.launched > 0 \/ fac.started > 0)
                            THEN 1 ELSE 0)]

\* Faulty variant: Build does not check that an event recorder was supplied.
BuildError_RecorderUnchecked(b, sound) ==
  IF Missing(b) \ {"recorder"} # {} THEN "missing required dependency"
  ELSE IF ~sound THEN "scheme registration failed"
  ELSE "nil"

\* Build(): the error of the builder b, "nil" when it yields a controller.
\* sound is whether the rest of Build (the scheme registration) succeeds.
BuildError(b, sound) ==
  IF Missing(b) # {} THEN "missing required dependency"
  ELSE IF ~sound THEN "scheme registration failed"
  ELSE "nil"

\* controller, err := NewControllerBuilder()
NewControllerBuilder ==
  /\ Goto("NewControllerBuilder", "withKubeClient")
  /\ builder' = {}
  /\ UNCHANGED <<env, descriptors,
                 ret, stopCh, handlers, cfg, consulted, clients, factory,
                 warnings, controller, run, workers, failed>>

\* The effect of a step .with...(arg), arg an informer factory f or a client
\* (f = ""): the builder holds what the step supplies, and f the registration.
Supply(step, f) ==
  /\ builder' = builder \cup {step}
  /\ factory' = IF f \in Factories
                THEN [factory EXCEPT ![f] = Register(@, step)]
                ELSE factory

\* One step of the chain in Start.
BuilderStep(step, next, f) ==
  /\ Goto(step, next)
  /\ Supply(step, f)
  /\ UNCHANGED <<env, descriptors,
                 ret, stopCh, handlers, cfg, consulted, clients, warnings,
                 controller, run, workers, failed>>

\* withKubeClient(kubeClient).
withKubeClient == BuilderStep("withKubeClient", "withOpenEBSClient", "")

\* withOpenEBSClient(openebsClient).
withOpenEBSClient == BuilderStep("withOpenEBSClient", "withNDMClient", "")

\* withNDMClient(ndmClient).
withNDMClient == BuilderStep("withNDMClient", "withCSPCSynced", "")

\* withCSPCSynced(spcInformerFactory).
withCSPCSynced == BuilderStep("withCSPCSynced", "withCSPCLister", "spc")

\* withCSPCLister(spcInformerFactory).
withCSPCLister == BuilderStep("withCSPCLister", "withRecorder", "spc")

\* withRecorder(kubeClient).
withRecorder == BuilderStep("withRecorder", "withEventHandler", "")

\* Faulty variant: the event handler is registered with the kube factory.
withEventHandler_OnKubeFactory ==
  BuilderStep("withEventHandler", "withWorkqueueRateLimiting", "kube")

\* withEventHandler(spcInformerFactory).
withEventHandler == BuilderStep("withEventHandler", "withWorkqueueRateLimiting", "spc")

\* withWorkqueueRateLimiting().
withWorkqueueRateLimiting == BuilderStep("withWorkqueueRateLimiting", "Build", "")

\* Faulty variant: the error of Build is not checked, and startup goes on with
\* the nil controller.
Build_ErrorUnchecked(sound) ==
  LET err == BuildError(builder, sound)
  IN /\ Goto("Build", "GoKubeFactory")
     /\ controller' = IF err = "nil" THEN "built" ELSE "nil"
     /\ failed' = IF err = "nil" THEN failed ELSE failed \cup {"Build"}
     /\ UNCHANGED <<env, descriptors, ret, stopCh, handlers, cfg, consulted,
                    clients, factory, warnings, builder, run, workers>>

\* .Build(); if err != nil { return errors.Wrapf(err, ...) }
Build(sound) ==
  LET err == BuildError(builder, sound)
  IN /\ IF err = "nil"
        THEN /\ Goto("Build", "GoKubeFactory")
             /\ controller' = "built"
             /\ UNCHANGED <<ret, failed>>
        ELSE /\ Return("Build", Err("error building controller instance", err))
             /\ failed' = failed \cup {"Build"}
             /\ UNCHANGED controller
     /\ UNCHANGED <<env, descriptors,
                    stopCh, handlers, cfg, consulted, clients, factory,
                    warnings, builder, run, workers>>

\* ------------------------------------------------------------------------
\* The informer factories' goroutines
\* ------------------------------------------------------------------------

\* Faulty variant: the factory's Start is handed a channel of its own, which no
\* signal closes.
GoFactoryStart_OwnChannel(step, next, f) ==
  /\ Goto(step, next)
  /\ factory' = [factory EXCEPT ![f].launched = @ + 1, ![f].stop = "neverStop"]
  /\ UNCHANGED <<env, descriptors,
                 ret, stopCh, handlers, cfg, consulted, clients, warnings,
                 builder, controller, run, workers, failed>>

\* go f.Start(stopCh)
GoFactoryStart(step, next, f) ==
  /\ Goto(step, next)
  /\ factory' = [factory EXCEPT ![f].launched = @ + 1, ![f].stop = "stopCh"]
  /\ UNCHANGED <<env, descriptors,
                 ret, stopCh, handlers, cfg, consulted, clients, warnings,
                 builder, controller, run, workers, failed>>

\* Faulty variant: the kube factory's Start is never launched.
GoKubeFactory_Skipped ==
  /\ Goto("GoKubeFactory", "GoSpcFactory")
  /\ UNCHANGED <<env, descriptors,
                 ret, stopCh, handlers, cfg, consulted, clients, factory,
                 warnings, builder, controller, run, workers, failed>>

\* go kubeInformerFactory.Start(stopCh)
GoKubeFactory == GoFactoryStart("GoKubeFactory", "GoSpcFactory", "kube")

\* Faulty variant: the custom-resource factory's Start is handed a channel that
\* no signal closes.
GoSpcFactory_OwnChannel == GoFactoryStart_OwnChannel("GoSpcFactory", "Run", "spc")

\* go spcInformerFactory.Start(stopCh)
GoSpcFactory == GoFactoryStart("GoSpcFactory", "Run", "spc")

\* The goroutine runs f.Start(stopCh): the factory's informers begin.
FactoryStart(f) ==
  /\ factory[f].launched > factory[f].started
  /\ factory' = [factory EXCEPT ![f].started = @ + 1, ![f].task = "running"]
  /\ UNCHANGED <<env, descriptors,
                 pc, steps, ret, stopCh, handlers, cfg, consulted, clients,
                 warnings, builder, controller, run, workers, failed>>

\* The informers of f complete their initial list: the cache is synced.
FactorySync(f) ==
  /\ factory[f].task = "running"
  /\ factory[f].registered # {}
  /\ ~factory[f].synced
  /\ factory' = [factory EXCEPT ![f].synced = TRUE]
  /\ UNCHANGED <<env, descriptors,
                 pc, steps, ret, stopCh, handlers, cfg, consulted, clients,
                 warnings, builder, controller, run, workers, failed>>

\* The informers of f see stopCh closed and stop.
FactoryStop(f) ==
  /\ factory[f].task = "running"
  /\ Closed(factory[f].stop)
  /\ factory' = [factory EXCEPT ![f].task = "stopped"]
  /\ UNCHANGED <<env, descriptors,
                 pc, steps, ret, stopCh, handlers, cfg, consulted, clients,
                 warnings, builder, controller, run, workers, failed>>

\* The first termination signal arrives: the handler closes stopCh.
Signal ==
  /\ stopCh = "open"
  /\ stopCh' = "closed"
  /\ UNCHANGED <<env, descriptors,
                 pc, steps, ret, handlers, cfg, consulted, clients, factory,
                 warnings, builder, controller, run, workers, failed>>

\* ------------------------------------------------------------------------
\* controller.Run and its workers
\* ------------------------------------------------------------------------

\* Threadiness: the number of workers Start asks Run for.
Threadiness == 2

\* Faulty variant: Run is asked for one worker.
CallRun_OneWorker ==
  /\ Goto("Run", "InRun")
  /\ run' = [run EXCEPT !.state = "waitSync", !.threadiness = 1,
                        !.stop = "stopCh"]
  /\ UNCHANGED <<env, descriptors,
                 ret, stopCh, handlers, cfg, consulted, clients, factory,
                 warnings, builder, controller, workers, failed>>

\* Faulty variant: Run is handed a channel that is never closed (wait.NeverStop)
\* in place of stopCh.
CallRun_NeverStop ==
  /\ Goto("Run", "InRun")
  /\ run' = [run EXCEPT !.state = "waitSync", !.threadiness = Threadiness,
                        !.stop = "neverStop"]
  /\ UNCHANGED <<env, descriptors,
                 ret, stopCh, handlers, cfg, consulted, clients, factory,
                 warnings, builder, controller, workers, failed>>

\* Faulty variant: Start looks at stopCh before the call, and returns nil
\* without calling Run when it is closed already.
CallRun_UnlessStopped ==
  /\ IF stopCh = "closed"
     THEN Return("Run", Nil) /\ UNCHANGED run
     ELSE /\ Goto("Run", "InRun")
          /\ run' = [run EXCEPT !.state = "waitSync", !.threadiness = Threadiness,
                                !.stop = "stopCh"]
          /\ UNCHANGED ret
  /\ UNCHANGED <<env, descriptors, stopCh, handlers, cfg, consulted, clients,
                 factory, warnings, builder, controller, workers, failed>>

\* return controller.Run(2, stopCh): the call. triggered is whether stopCh was
\* closed already when Run was called.
CallRun ==
  /\ Goto("Run", "InRun")
  /\ run' = [run EXCEPT !.state = "waitSync", !.threadiness = Threadiness,
                        !.stop = "stopCh", !.triggered = Closed("stopCh")]
  /\ UNCHANGED <<env, descriptors,
                 ret, stopCh, handlers, cfg, consulted, clients, factory,
                 warnings, builder, controller, workers, failed>>

\* Faulty variant: Run launches its workers without waiting for the cache.
RunSynced_Ungated ==
  /\ run.state = "waitSync"
  /\ run' = [run EXCEPT !.state = "blocked"]
  /\ workers' = [i \in 1..run.threadiness |-> "idle"]
  /\ UNCHANGED <<env, descriptors,
                 pc, steps, ret, stopCh, handlers, cfg, consulted, clients,
                 factory, warnings, builder, controller, failed>>

\* Run's wait for the cache ends with the cache synced: the workers start.
RunSynced ==
  /\ run.state = "waitSync"
  /\ factory["spc"].synced
  /\ run' = [run EXCEPT !.state = "blocked"]
  /\ workers' = [i \in 1..run.threadiness |-> "idle"]
  /\ UNCHANGED <<env, descriptors,
                 pc, steps, ret, stopCh, handlers, cfg, consulted, clients,
                 factory, warnings, builder, controller, failed>>

\* Run's wait for the cache sees stopCh closed first: Run fails, and Start
\* returns Run's error.
RunSyncAbandoned ==
  /\ run.state = "waitSync"
  /\ ~factory["spc"].synced
  /\ Closed(run.stop)
  /\ run' = [run EXCEPT !.state = "returned"]
  /\ Return("InRun", Err("", "failed to wait for caches to sync"))
  /\ failed' = failed \cup {"Run"}
  /\ UNCHANGED <<env, descriptors,
                 stopCh, handlers, cfg, consulted, clients, factory,
                 warnings, builder, controller, workers>>

\* Run, blocked on stopCh, sees it closed and tells the workers to stop.
RunStop ==
  /\ run.state = "blocked"
  /\ Closed(run.stop)
  /\ run' = [run EXCEPT !.state = "draining"]
  /\ UNCHANGED <<env, descriptors,
                 pc, steps, ret, stopCh, handlers, cfg, consulted, clients,
                 factory, warnings, builder, controller, workers, failed>>

\* Whether every worker Run launched has terminated.
AllWorkersStopped == \A i \in DOMAIN workers : workers[i] = "stopped"

\* Run returns nil once its workers have stopped: Start returns it.
RunReturn ==
  /\ run.state = "draining"
  /\ AllWorkersStopped
  /\ run' = [run EXCEPT !.state = "returned"]
  /\ Return("InRun", Nil)
  /\ UNCHANGED <<env, descriptors,
                 stopCh, handlers, cfg, consulted, clients, factory,
                 warnings, builder, controller, workers, failed>>

\* Worker i takes an item from the work queue and reconciles it.
WorkerDispatch(i) ==
  /\ run.state = "blocked"
  /\ workers[i] = "idle"
  /\ workers' = [workers EXCEPT ![i] = "reconciling"]
  /\ run' = [run EXCEPT !.dispatchedUnsynced = @ \/ ~factory["spc"].synced]
  /\ UNCHANGED <<env, descriptors,
                 pc, steps, ret, stopCh, handlers, cfg, consulted, clients,
                 factory, warnings, builder, controller, failed>>

\* Worker i is done with its item.
WorkerFinish(i) ==
  /\ workers[i] = "reconciling"
  /\ workers' = [workers EXCEPT ![i] = "idle"]
  /\ UNCHANGED <<env, descriptors,
                 pc, steps, ret, stopCh, handlers, cfg, consulted, clients,
                 factory, warnings, builder, controller, run, failed>>

\* Worker i, told to stop, terminates.
WorkerExit(i) ==
  /\ run.state = "draining"
  /\ workers[i] = "idle"
  /\ workers' = [workers EXCEPT ![i] = "stopped"]
  /\ UNCHANGED <<env, descriptors,
                 pc, steps, ret, stopCh, handlers, cfg, consulted, clients,
                 factory, warnings, builder, controller, run, failed>>

\* ------------------------------------------------------------------------
\* Specifications
\* ------------------------------------------------------------------------

\* The statements of Start, with every outcome of its collaborators.
StartStep ==
  \/ SetupSignalHandler
  \/ \E ok \in BOOLEAN : SetLogFlag(ok)
  \/ GetClusterConfig
  \/ \E ok \in BOOLEAN : NewKubeClient(ok)
  \/ \E ok \in BOOLEAN : NewOpenEBSClient(ok)
  \/ \E ok \in BOOLEAN : NewNDMClient(ok)
  \/ NewKubeInformerFactory
  \/ NewSpcInformerFactory
  \/ NewControllerBuilder
  \/ withKubeClient
  \/ withOpenEBSClient
  \/ withNDMClient
  \/ withCSPCSynced
  \/ withCSPCLister
  \/ withRecorder
  \/ withEventHandler
  \/ withWorkqueueRateLimiting
  \/ \E sound \in BOOLEAN : Build(sound)
  \/ GoKubeFactory
  \/ GoSpcFactory
  \/ CallRun

RunStep == RunSynced \/ RunSyncAbandoned \/ RunStop \/ RunReturn

WorkerStep(i) == WorkerFinish(i) \/ WorkerExit(i)

Next ==
  \/ StartStep
  \/ RunStep
  \/ \E i \in DOMAIN workers : WorkerDispatch(i) \/ WorkerStep(i)
  \/ \E f \in Factories : FactoryStart(f) \/ FactorySync(f) \/ FactoryStop(f)
  \/ Signal

Spec == Init /\ [][Next]_vars

\* Every goroutine that can take a step eventually does; a signal need not
\* arrive, a cache need not sync, and a work queue may stay empty.
Fairness ==
  /\ WF_vars(StartStep)
  /\ WF_vars(RunStep)
  /\ \A i \in 1..Threadiness : WF_vars(i \in DOMAIN workers /\ WorkerStep(i))
  /\ \A f \in Factories : WF_vars(FactoryStart(f) \/ FactoryStop(f))

FairSpec == Spec /\ Fairness

\* The controller builder on its own: from a fresh builder, with the clients
\* and the informer factories at hand, any of the steps are applied, each at
\* most once and in any order, and then Build is called.
BuilderInit ==
  /\ kubeconfig = ""
  /\ inCluster = TRUE
  /\ resyncEnv = UnsetVar
  /\ pc = "Harness"
  /\ steps = <<>>
  /\ ret = NoReturn
  /\ stopCh = "open"
  /\ handlers = 1
  /\ cfg = [source |-> "incluster", path |-> ""]
  /\ consulted = {"incluster"}
  /\ clients = {"kubernetes", "openebs", "ndm"}
  /\ factory = [f \in Factories |->
                  [NoFactory EXCEPT !.created = TRUE,
                                    !.client = IF f = "kube" THEN "kubernetes" ELSE "openebs",
                                    !.interval = ResyncInterval]]
  /\ warnings = 2
  /\ builder = {}
  /\ controller = "nil"
  /\ run = NoRun
  /\ workers = <<>>
  /\ failed = {}
  /\ descriptors = <<>>

\* .with...(arg): a step of the builder, given the custom-resource factory
\* when it registers with one.
HarnessWith(step) ==
  /\ pc = "Harness"
  /\ step \notin builder
  /\ Supply(step, IF Registers[step] # {} THEN "spc" ELSE "")
  /\ UNCHANGED <<env, descriptors,
                 pc, steps, ret, stopCh, handlers, cfg, consulted, clients,
                 warnings, controller, run, workers, failed>>

\* .Build() on the builder as it stands.
HarnessBuild(sound) ==
  LET err == BuildError(builder, sound)
  IN /\ pc = "Harness"
     /\ pc' = "Done"
     /\ steps' = Append(steps, "Build")
     /\ controller' = IF err = "nil" THEN "built" ELSE "nil"
     /\ ret' = IF err = "nil" THEN Nil ELSE Err("", err)
     /\ failed' = IF err = "nil" THEN failed ELSE failed \cup {"Build"}
     /\ UNCHANGED <<env, descriptors,
                    stopCh, handlers, cfg, consulted, clients, factory,
                    warnings, builder, run, workers>>

BuilderNext ==
  \/ \E step \in BuilderSteps : HarnessWith(step)
  \/ \E sound \in BOOLEAN : HarnessBuild(sound)

BuilderSpec == BuilderInit /\ [][BuilderNext]_vars

\* getClusterConfig on its own: it is called up to MaxCalls times, with any
\* path each time, while the in-cluster credentials come and go. The
\* kubeconfig files do not change.
MaxCalls == 3

ConnectorInit ==
  /\ kubeconfig \in KubeconfigPaths
  /\ inCluster \in BOOLEAN
  /\ resyncEnv = UnsetVar
  /\ pc = "Harness"
  /\ steps = <<>>
  /\ ret = NoReturn
  /\ stopCh = "none"
  /\ handlers = 0
  /\ cfg = [source |-> "nil", path |-> ""]
  /\ consulted = {}
  /\ clients = {}
  /\ factory = [f \in Factories |-> NoFactory]
  /\ warnings = 0
  /\ builder = {}
  /\ controller = "nil"
  /\ run = NoRun
  /\ workers = <<>>
  /\ failed = {}
  /\ descriptors = <<>>

\* cfg, err := getClusterConfig(path)
ConnectorCall(path) ==
  LET r == getClusterConfig(path, inCluster)
  IN /\ pc = "Harness"
     /\ Len(descriptors) < MaxCalls
     /\ descriptors' = Append(descriptors, Called(path, r.res))
     /\ consulted' = consulted \cup r.consulted
     /\ cfg' = r.res.cfg
     /\ UNCHANGED <<env, pc, steps, ret, stopCh, handlers, clients, factory,
                    warnings, builder, controller, run, workers, failed>>

\* The in-cluster credentials appear or disappear.
CredentialsChange ==
  /\ pc = "Harness"
  /\ inCluster' = ~inCluster
  /\ UNCHANGED <<kubeconfig, resyncEnv, pc, steps, ret, stopCh, handlers, cfg,
                 consulted, clients, factory, warnings, builder, controller,
                 run, workers, failed, descriptors>>

ConnectorNext ==
  \/ \E path \in KubeconfigPaths : ConnectorCall(path)
  \/ CredentialsChange

ConnectorSpec == ConnectorInit /\ [][ConnectorNext]_vars

\* Start up to the creation of the informer factories, every collaborator
\* succeeding, under every RESYNC_INTERVAL of WideEnv.
SyncInit == InitWith(WideEnv)

SyncNext ==
  \/ SetupSignalHandler
  \/ SetLogFlag(TRUE)
  \/ GetClusterConfig
  \/ NewKubeClient(TRUE)
  \/ NewOpenEBSClient(TRUE)
  \/ NewNDMClient(TRUE)
  \/ NewKubeInformerFactory
  \/ NewSpcInformerFactory

SyncSpec == SyncInit /\ [][SyncNext]_vars

\* ------------------------------------------------------------------------
\* Properties
\* ------------------------------------------------------------------------

AllClients == {"kubernetes", "openebs", "ndm"}

\* Nothing of the startup after the client constructions has happened.
NothingBuilt ==
  /\ \A f \in Factories : ~factory[f].created /\ factory[f].launched = 0
                          /\ factory[f].started = 0
  /\ builder = {}
  /\ controller = "nil"
  /\ run.state = "idle"
  /\ workers = <<>>

\* C1: a factory's Start is launched, and runs, only after the whole builder
\* chain down to Build has returned, with every registration of the chain
\* made; and no registration is ever made on a factory whose Start has been
\* launched.
C1_RegistrationsBeforeStart ==
  \A f \in Factories :
    /\ factory[f].late = 0
    /\ (factory[f].launched > 0 \/ factory[f].started > 0) =>
         /\ \A i \in 1..Len(ChainSteps) : Executed(ChainSteps[i])
         /\ controller = "built"
         /\ factory["spc"].registered = {"synced", "lister", "eventHandler"}

\* C1 witness: the custom-resource factory's Start has run, after the three
\* registrations.
C1_Witness ==
  /\ factory["spc"].started = 1
  /\ factory["kube"].launched = 1
  /\ factory["spc"].registered = {"synced", "lister", "eventHandler"}

\* C2: an informer factory exists only when the three clients do.
C2_ClientsBeforeFactories ==
  \A f \in Factories :
    (factory[f].created \/ Executed("NewKubeInformerFactory")) =>
      /\ clients = AllClients
      /\ Executed("NewKubeClient") /\ Executed("NewOpenEBSClient")
      /\ Executed("NewNDMClient")
      /\ failed \cap {"NewKubeClient", "NewOpenEBSClient", "NewNDMClient"} = {}

\* C2 witness: the first informer factory has just been created.
C2_Witness ==
  /\ factory["kube"].created
  /\ ~factory["spc"].created
  /\ clients = AllClients

\* C3: once getClusterConfig has returned an error, Start has returned the
\* wrapped error and no client, factory, controller, factory Start or Run
\* exists, then and ever after.
C3_ConfigErrorAborts ==
  "getClusterConfig" \in failed =>
    /\ pc = "Done"
    /\ ret.returned /\ ret.cause # ""
    /\ ret.wrap = "error building kubeconfig"
    /\ steps = <<"SetupSignalHandler", "SetLogFlag", "getClusterConfig">>
    /\ cfg.source = "nil"
    /\ clients = {}
    /\ NothingBuilt

\* C3 witness: the kubeconfig path names a file that does not exist, and
\* Start has returned.
C3_Witness ==
  /\ kubeconfig = "/no/such/file"
  /\ inCluster
  /\ "getClusterConfig" \in failed
  /\ pc = "Done"

\* The message Start wraps the error of each client constructor in.
ClientMessage ==
  [NewKubeClient |-> "error building kubernetes clientset",
   NewOpenEBSClient |-> "error building openebs clientset",
   NewNDMClient |-> "error building ndm clientset"]

\* C4: once a client constructor has failed, Start has returned that
\* constructor's own wrapped error (the three messages differ), and no
\* factory, controller, factory Start or Run exists; no later constructor
\* was tried.
C4_ClientErrorIsFatal ==
  \A s \in DOMAIN ClientMessage :
    s \in failed =>
      /\ pc = "Done"
      /\ ret.returned /\ ret.cause # ""
      /\ ret.wrap = ClientMessage[s]
      /\ \A t \in DOMAIN ClientMessage : t # s => ClientMessage[t] # ret.wrap
      /\ steps[Len(steps)] = s
      /\ failed = {s}
      /\ clients # AllClients
      /\ NothingBuilt

\* C4 witness: the second constructor has failed after the first succeeded.
C4_Witness ==
  /\ "NewOpenEBSClient" \in failed
  /\ clients = {"kubernetes"}
  /\ pc = "Done"

\* The decimal digits.
DecimalDigit == {"0", "1", "2", "3", "4", "5", "6", "7", "8", "9"}

\* s is an integer numeral: decimal digits after an optional sign.
IsNumeral(s) ==
  LET d == IF s # <<>> /\ s[1] \in {"+", "-"} THEN Tail(s) ELSE s
  IN d # <<>> /\ \A i \in 1..Len(d) : d[i] \in DecimalDigit

\* The numeral s denotes zero.
IsZeroNumeral(s) ==
  /\ IsNumeral(s)
  /\ \A i \in 1..Len(s) : s[i] \in {"0", "+", "-"}

\* The numeral s denotes a positive integer.
IsPositiveNumeral(s) == IsNumeral(s) /\ ~IsZeroNumeral(s) /\ s[1] # "-"

\* The magnitude of the numeral s.
Magnitude(s) ==
  ParseDigits(IF s[1] \in {"+", "-"} THEN Tail(s) ELSE s, WideOfSmall(0))

\* The duration d is exactly (-1)^neg * n seconds.
ExactSeconds(d, neg, n) ==
  /\ FitsInt64(neg, MulSecondWide(n))
  /\ d = Int64Of(neg, MulSecondWide(n))

\* The factories created so far.
Created == {f \in Factories : factory[f].created}

\* C5: for RESYNC_INTERVAL absent, not a numeral or zero, every call of
\* getSyncInterval returns (the factory gets) exactly 30 s and warns, one
\* warning per call; and whatever RESYNC_INTERVAL is, the call returns and
\* the factory is created.
C5_DefaultWithWarning ==
  /\ (~resyncEnv.set \/ ~IsNumeral(resyncEnv.val) \/ IsZeroNumeral(resyncEnv.val)) =>
       /\ \A f \in Created :
            ExactSeconds(factory[f].interval, FALSE, WideOfSmall(30))
       /\ warnings = Cardinality(Created)
  /\ Executed("NewKubeInformerFactory") => factory["kube"].created
  /\ Executed("NewSpcInformerFactory") => factory["spc"].created

\* C5 witness: both factories exist under RESYNC_INTERVAL=-0.
C5_Witness ==
  /\ resyncEnv = SetVar(<<"-", "0">>)
  /\ Created = Factories
  /\ warnings = 2

\* C6: for every positive numeral N as RESYNC_INTERVAL, every call of
\* getSyncInterval returns exactly N seconds and does not warn.
C6_PositiveIsNSeconds ==
  (resyncEnv.set /\ IsPositiveNumeral(resyncEnv.val)) =>
    /\ \A f \in Created :
         ExactSeconds(factory[f].interval, FALSE, Magnitude(resyncEnv.val))
    /\ warnings = 0

\* C7: after getClusterConfig, exactly one source has been consulted, the
\* one the path selects; a non-empty path that cannot be loaded is an error
\* even inside a cluster, and an empty path outside a cluster is an error.
C7_OneSourceNoFallback ==
  IF ~Executed("getClusterConfig") THEN consulted = {}
  ELSE /\ consulted = IF kubeconfig # "" THEN {"kubeconfig"} ELSE {"incluster"}
       /\ Cardinality(consulted) = 1
       /\ (kubeconfig # "" /\ kubeconfig \notin LoadableFiles) =>
            "getClusterConfig" \in failed /\ cfg.source = "nil" /\ ret.cause # ""
       /\ (kubeconfig # "" /\ kubeconfig \in LoadableFiles) =>
            cfg = [source |-> "kubeconfig", path |-> kubeconfig]
       /\ (kubeconfig = "" /\ ~inCluster) =>
            "getClusterConfig" \in failed /\ cfg.source = "nil" /\ ret.cause # ""
       /\ (kubeconfig = "" /\ inCluster) => cfg.source = "incluster"

\* C7 witness: inside a cluster, a kubeconfig path that cannot be loaded has
\* made getClusterConfig fail.
C7_Witness ==
  /\ kubeconfig = "/no/such/file"
  /\ inCluster
  /\ consulted = {"kubeconfig"}
  /\ "getClusterConfig" \in failed

\* C8: when Build has been called on a builder that lacks any of the seven
\* required dependencies, whatever else it holds, Build has returned an
\* error and no controller; a controller exists only when all seven were
\* supplied.
C8_BuildNeedsEveryDependency ==
  Executed("Build") =>
    /\ (\E d \in DOMAIN Required : ~(Required[d] \subseteq builder)) =>
         /\ controller = "nil"
         /\ ret.returned /\ ret.cause # ""
    /\ controller = "built" =>
         /\ \A d \in DOMAIN Required : Required[d] \subseteq builder
         /\ ret = Nil
    /\ Cardinality(DOMAIN Required) = 7

\* C8 witness: Build has failed on a builder given everything but the event
\* recorder.
C8_Witness ==
  /\ Executed("Build")
  /\ builder = BuilderSteps \ {"withRecorder"}
  /\ controller = "nil"
  /\ ret.cause # ""

\* The scenario of C9: no kubeconfig path, RESYNC_INTERVAL unset, and no
\* collaborator of the startup has failed.
C9_Scenario ==
  /\ kubeconfig = ""
  /\ ~resyncEnv.set
  /\ failed \subseteq {"Run"}

\* What C9 says of the startup up to the call of Run.
C9_Startup ==
  /\ Executed("getClusterConfig") =>
       consulted = {"incluster"} /\ cfg.source = "incluster"
  /\ \A f \in Created : ExactSeconds(factory[f].interval, FALSE, WideOfSmall(30))
  /\ run.state # "idle" =>
       /\ clients = AllClients
       /\ controller = "built"
       /\ \A f \in Factories : factory[f].launched = 1 /\ factory[f].stop = "stopCh"
       /\ run.threadiness = 2
       /\ run.stop = "stopCh"
  /\ pc = "Done" => run.state = "returned" /\ stopCh = "closed"

C10_RunReturnsWithoutLeak ==
  /\ (run.state # "idle" /\ stopCh = "closed") ~> (run.state = "returned")
  /\ [](run.state = "returned" =>
          /\ Len(workers) \in {0, 2}
          /\ \A i \in DOMAIN workers : workers[i] = "stopped")

\* C10 witness: Run has returned after stopCh was closed, its two workers
\* terminated.
C10_Witness ==
  /\ run.state = "returned"
  /\ stopCh = "closed"
  /\ Len(workers) = 2
  /\ \A i \in DOMAIN workers : workers[i] = "stopped"

TimesExecuted(s) == Cardinality({i \in 1..Len(steps) : steps[i] = s})

\* C12: SetupSignalHandler is called exactly once, as the first statement of
\* Start, nothing else of the startup preceding it; the channel it returned
\* is the one handed to both factories' Start and to Run; and the channel is
\* single-shot: once closed it stays closed, and once made it stays made.
C12_OneSingleShotSignal ==
  /\ [](/\ handlers = TimesExecuted("SetupSignalHandler")
        /\ handlers <= 1
        /\ steps # <<>> => steps[1] = "SetupSignalHandler" /\ handlers = 1
        /\ handlers = 0 =>
             /\ stopCh = "none"
             /\ cfg.source = "nil" /\ consulted = {} /\ clients = {}
             /\ NothingBuilt
             /\ ~ret.returned
        /\ \A f \in Factories :
             factory[f].launched > 0 => factory[f].stop = "stopCh"
        /\ \A f \in Factories :
             factory[f].launched = 0 => factory[f].stop = "none"
        /\ run.state # "idle" => run.stop = "stopCh"
        /\ run.state = "idle" => run.stop = "none")
  /\ [][/\ stopCh = "closed" => stopCh' = "closed"
        /\ stopCh = "open" => stopCh' \in {"open", "closed"}]_vars

\* C12 witness: the signal has fired after both factories' Start and Run were
\* handed the channel.
C12_Witness ==
  /\ handlers = 1
  /\ stopCh = "closed"
  /\ \A f \in Factories : factory[f].launched = 1 /\ factory[f].stop = "stopCh"
  /\ run.state = "blocked"
  /\ run.stop = "stopCh"

\* The collaborators whose error ends Start before the factories are started.
StartupFailures ==
  {"flag.Set", "getClusterConfig", "NewKubeClient", "NewOpenEBSClient",
   "NewNDMClient", "Build"}

\* C13: no factory's Start is ever launched twice, and its goroutine runs
\* once per launch; when Start has reached the call of Run, each of the two
\* factories' Start has been launched exactly once; and when Start failed
\* before that, no factory's Start was launched or ran.
C13_EachFactoryStartedOnce ==
  /\ \A f \in Factories :
       /\ factory[f].launched <= 1
       /\ factory[f].started <= factory[f].launched
       /\ factory[f].launched = TimesExecuted(IF f = "kube" THEN "GoKubeFactory"
                                              ELSE "GoSpcFactory")
  /\ (pc \in {"Run", "InRun"} \/ Executed("Run")) =>
       \A f \in Factories : factory[f].launched = 1
  /\ (failed \cap StartupFailures # {} \/ (pc = "Done" /\ ~Executed("Run"))) =>
       /\ pc = "Done"
       /\ ret.returned /\ ret.cause # ""
       /\ \A f \in Factories : factory[f].launched = 0 /\ factory[f].started = 0
                               /\ factory[f].task = "none"

\* C13 witness: Start is inside Run, and the goroutine of each factory's one
\* Start has run.
C13_Witness ==
  /\ pc = "InRun"
  /\ \A f \in Factories : factory[f].launched = 1 /\ factory[f].started = 1

\* C14: a factory's informers, once running, stop only after stopCh is
\* closed; once stopCh is closed every factory whose Start was launched
\* eventually has stopped, and the workers Run launched eventually have all
\* terminated; and when Start has returned, it returned an error if a step of
\* the startup or Run failed, and nil if none did.
C14_StopOnSignal ==
  /\ [](\A f \in Factories :
          /\ factory[f].task = "stopped" => stopCh = "closed"
          /\ (factory[f].started > 0 /\ stopCh # "closed") =>
               factory[f].task = "running")
  /\ \A f \in Factories :
       (factory[f].launched > 0 /\ stopCh = "closed")
         ~> (factory[f].task = "stopped")
  /\ (workers # <<>> /\ stopCh = "closed") ~> AllWorkersStopped
  /\ [](pc = "Done" =>
          /\ ret.returned
          /\ failed # {} => ret.cause # ""
          /\ failed = {} => ret = Nil)

\* C14 witness: after the signal both factories have stopped, the two workers
\* have terminated and Start has returned nil.
C14_Witness ==
  /\ stopCh = "closed"
  /\ \A f \in Factories : factory[f].task = "stopped"
  /\ Len(workers) = 2
  /\ AllWorkersStopped
  /\ pc = "Done"
  /\ ret = Nil

\* C15: any two calls of getClusterConfig with the same non-empty path (the
\* file not changing) returned the same config and the same error, whatever
\* was called, and whatever became of the in-cluster credentials, before and
\* in between; and a call leaves the flag and the credentials as they were.
C15_SamePathSameConfig ==
  /\ [](\A i, j \in 1..Len(descriptors) :
          (descriptors[i].path = descriptors[j].path /\ descriptors[i].path # "") =>
            /\ descriptors[i].cfg = descriptors[j].cfg
            /\ descriptors[i].err = descriptors[j].err)
  /\ [][Len(descriptors') > Len(descriptors) =>
          UNCHANGED <<kubeconfig, inCluster>>]_vars

\* C15 witness: the same kubeconfig file was loaded twice, with a call for the
\* in-cluster credentials in between that failed, and the credentials are
\* present afterwards.
C15_Witness ==
  /\ Len(descriptors) = 3
  /\ descriptors[1].path = "/etc/kubeconfig" /\ descriptors[1].err = "nil"
  /\ descriptors[2].path = "" /\ descriptors[2].err # "nil"
  /\ descriptors[3] = descriptors[1]
  /\ inCluster

\* The statements of Start in the order of its text; the last is the return
\* of what Run returned.
StartOrder ==
  <<"SetupSignalHandler", "SetLogFlag", "getClusterConfig", "NewKubeClient",
    "NewOpenEBSClient", "NewNDMClient", "NewKubeInformerFactory",
    "NewSpcInformerFactory">> \o ChainSteps \o
  <<"GoKubeFactory", "GoSpcFactory", "Run", "InRun">>

\* The statements of Start whose error is fatal, each with the collaborator
\* that fails in it and the message its error is wrapped in.
FatalSteps ==
  [SetLogFlag |-> [fails |-> "flag.Set", wrap |-> "failed to set logtostderr flag"],
   getClusterConfig |-> [fails |-> "getClusterConfig", wrap |-> "error building kubeconfig"],
   NewKubeClient |-> [fails |-> "NewKubeClient", wrap |-> "error building kubernetes clientset"],
   NewOpenEBSClient |-> [fails |-> "NewOpenEBSClient", wrap |-> "error building openebs clientset"],
   NewNDMClient |-> [fails |-> "NewNDMClient", wrap |-> "error building ndm clientset"],
   Build |-> [fails |-> "Build", wrap |-> "error building controller instance"]]

\* C16: the statements of Start are executed in the one order of its text;
\* once a fatal step has failed, it is the only step that failed and the last
\* statement executed, and Start has returned that step's own wrapped error;
\* and once Build has failed, no factory's Start was launched and Run was not
\* called.
C16_FirstFailureReturns ==
  /\ Len(steps) <= Len(StartOrder)
  /\ \A i \in 1..Len(steps) : steps[i] = StartOrder[i]
  /\ \A s \in DOMAIN FatalSteps :
       FatalSteps[s].fails \in failed =>
         /\ failed = {FatalSteps[s].fails}
         /\ pc = "Done"
         /\ steps[Len(steps)] = s
         /\ ret = Err(FatalSteps[s].wrap, ret.cause)
         /\ ret.cause # ""
         /\ \A t \in DOMAIN FatalSteps : t # s => FatalSteps[t].wrap # ret.wrap
  /\ "Build" \in failed =>
       /\ controller = "nil"
       /\ \A f \in Factories : factory[f].launched = 0 /\ factory[f].started = 0
       /\ ~Executed("GoKubeFactory") /\ ~Executed("GoSpcFactory")
       /\ ~Executed("Run")
       /\ run = NoRun
       /\ workers = <<>>

\* C16 witness: Build has failed after everything before it succeeded, and
\* Start has returned.
C16_Witness ==
  /\ "Build" \in failed
  /\ pc = "Done"
  /\ clients = AllClients
  /\ Created = Factories
  /\ builder = BuilderSteps
  /\ ret.wrap = "error building controller instance"

\* The numeral s denotes a negative integer.
IsNegativeNumeral(s) == IsNumeral(s) /\ ~IsZeroNumeral(s) /\ s[1] = "-"

\* C17: for every negative numeral -N as RESYNC_INTERVAL, every call of
\* getSyncInterval returns exactly -N seconds and does not warn, the default
\* is not substituted, and each factory is created with that interval.
C17_NegativeIsMinusNSeconds ==
  (resyncEnv.set /\ IsNegativeNumeral(resyncEnv.val)) =>
    /\ \A f \in Created :
         /\ ExactSeconds(factory[f].interval, TRUE, Magnitude(resyncEnv.val))
         /\ factory[f].interval # ResyncInterval
    /\ warnings = 0

\* C18: Start does not look at stopCh. Before the call of Run it can always
\* take its next statement, whether stopCh is closed or not; its statements
\* are executed in the one order of its text; it does not close or replace
\* stopCh; it returns before calling Run only when a fatal step failed; and
\* when it has called Run, with stopCh closed already or not, everything
\* before was done and the call was Run(2, stopCh).
C18_StartIgnoresSignal ==
  /\ [](/\ pc \notin {"InRun", "Done"} => ENABLED StartStep
        /\ \A i \in 1..Len(steps) : i <= Len(StartOrder) /\ steps[i] = StartOrder[i]
        /\ (pc = "Done" /\ run.state = "idle") =>
             failed \cap StartupFailures # {}
        /\ Executed("Run") =>
             /\ run.state # "idle"
             /\ run.threadiness = 2
             /\ run.stop = "stopCh"
             /\ clients = AllClients
             /\ Created = Factories
             /\ controller = "built"
             /\ \A f \in Factories : factory[f].launched = 1
             /\ \A i \in 1..Len(StartOrder) - 1 : Executed(StartOrder[i]))
  /\ [][(pc' # pc /\ pc \notin {"SetupSignalHandler", "InRun"}) =>
          stopCh' = stopCh]_vars

\* C18 witness: Run was called with stopCh closed already.
C18_Witness ==
  /\ run.triggered
  /\ run.state = "waitSync"
  /\ run.threadiness = 2
  /\ run.stop = "stopCh"
  /\ stopCh = "closed"
  /\ \A f \in Factories : factory[f].launched = 1

\* C19: each step of the chain that registers (withCSPCSynced,
\* withCSPCLister, withEventHandler), once executed, has registered with the
\* custom-resource factory and not with the kube factory; nothing is ever
\* registered with the kube factory, before its Start is launched, when it is
\* launched, or afterwards.
C19_KubeFactoryHasNoConsumers ==
  /\ factory["kube"].registered = {}
  /\ factory["kube"].late = 0
  /\ \A s \in BuilderSteps :
       (Registers[s] # {} /\ Executed(s)) =>
         /\ Registers[s] \subseteq factory["spc"].registered
         /\ Registers[s] \cap factory["kube"].registered = {}
  /\ factory["spc"].registered \subseteq
       UNION {Registers[s] : s \in {t \in BuilderSteps : Executed(t)}}

\* C19 witness: the kube factory's informers are running with nothing
\* registered, the custom-resource factory holding the three registrations.
C19_Witness ==
  /\ factory["kube"].launched = 1
  /\ factory["kube"].task = "running"
  /\ factory["kube"].registered = {}
  /\ factory["spc"].registered = {"synced", "lister", "eventHandler"}

\* C20: getSyncInterval is called once for each factory created
\* (RESYNC_INTERVAL staying as it is); the two factories are created with the
\* same interval; a call warns or not as the other does; and for
\* RESYNC_INTERVAL absent, not a numeral or zero there is one warning per
\* call, two once both factories exist.
C20_OneCallPerFactory ==
  /\ Created = Factories =>
       factory["kube"].interval = factory["spc"].interval
  /\ \A f \in Created : factory[f].interval = getSyncIntervalIn[resyncEnv].interval
  /\ warnings = IF getSyncIntervalIn[resyncEnv].warned
                THEN Cardinality(Created) ELSE 0
  /\ (~resyncEnv.set \/ ~IsNumeral(resyncEnv.val) \/ IsZeroNumeral(resyncEnv.val)) =>
       /\ warnings = Cardinality(Created)
       /\ Created = Factories => warnings = 2

\* C20 witness: both factories exist with the default interval, RESYNC_INTERVAL
\* being unset, after two warnings.
C20_Witness ==
  /\ ~resyncEnv.set
  /\ Created = Factories
  /\ factory["kube"].interval = ResyncInterval
  /\ factory["spc"].interval = ResyncInterval
  /\ warnings = 2
====
